---- MODULE Spec2Model ----
(***************************************************************************)
(* The per-instance animation registry (AnimationHandler), the shape       *)
(* assignment engine (VoxelHandler), the driving loop (Gameloop) with the  *)
(* upload workers of the InstanceController, and the scroll handler        *)
(* (TransitionHandler) of cv-game.                                         *)
(*                                                                         *)
(* f32 values are modelled in fixed point: positions in 1/PosScale units,  *)
(* times in 1/TimeDen seconds (a step's time in 1/TimeDen of its run),     *)
(* blend factors in 1/EaseDen.  Sums and differences are exact, products   *)
(* are truncated toward zero, and NaN is a value that every operation      *)
(* propagates and every comparison answers false on.                       *)
(* Indices are 0-based as in the source; Get(s, i) is s.get(i).            *)
(***************************************************************************)
EXTENDS Integers, Sequences, FiniteSets, TLC

\* ------------------------------------------------------------- bounds
NumInstances == 2
PosScale == 10
TimeDen == 16
EaseDen == 1000
MaxSteps == 2
MaxPersistent == 2
MaxCalls == 4
MaxElapsed == 8
MaxDelay == 3
MaxPeriod == 3
MaxEvents == 3
MaxShows == 2
MaxPosition == 11
PositionScale == 250

\* ------------------------------------------------------------- f32
NaN == -2000000000

TDiv(a, b) ==
    IF a >= 0 THEN a \div b ELSE -((-a) \div b)

FAdd(a, b) ==
    IF a = NaN \/ b = NaN THEN NaN ELSE a + b

FSub(a, b) ==
    IF a = NaN \/ b = NaN THEN NaN ELSE a - b

\* a * (num / den)
FMul(a, num, den) ==
    IF a = NaN \/ num = NaN THEN NaN ELSE TDiv(a * num, den)

FLt(a, b) ==
    a # NaN /\ b # NaN /\ a < b

FGe(a, b) ==
    a # NaN /\ b # NaN /\ a >= b

Clamp01(t) ==
    IF t < 0 THEN 0 ELSE IF t > TimeDen THEN TimeDen ELSE t

Vector3(x, y, z) ==
    [x |-> x, y |-> y, z |-> z]

Zero3 ==
    Vector3(0, 0, 0)

VAdd(u, v) ==
    Vector3(FAdd(u.x, v.x), FAdd(u.y, v.y), FAdd(u.z, v.z))

VSub(u, v) ==
    Vector3(FSub(u.x, v.x), FSub(u.y, v.y), FSub(u.z, v.z))

VScale(v, num, den) ==
    Vector3(FMul(v.x, num, den), FMul(v.y, num, den), FMul(v.z, num, den))

\* a whole-unit vector in position sub-units
Units(x, y, z) ==
    Vector3(x * PosScale, y * PosScale, z * PosScale)

IsNaN3(v) ==
    v.x = NaN \/ v.y = NaN \/ v.z = NaN

Get(s, i) ==
    s[i + 1]

InRange(s, i) ==
    i >= 0 /\ i < Len(s)

\* ------------------------------------------------------------- easing
\* ease_in_ease_out_loop(dt, delay, freq): the triangle fold of (dt - delay)
\* modulo 2*freq, then t^2 / (2(t^2 - t) + 1).  dt, delay, freq in time units.
\* faulty variant: the fold is taken modulo freq, half the cycle
ease_loop_half_cycle(dt, delay, freq) ==
    IF FLt(dt, delay) THEN 0
    ELSE IF delay = NaN THEN NaN
    ELSE LET time == (((dt - delay) % freq) * EaseDen) \div freq
             sqr == (time * time) \div EaseDen
         IN  (sqr * EaseDen) \div (2 * (sqr - time) + EaseDen)

ease_in_ease_out_loop(dt, delay, freq) ==
    IF FLt(dt, delay) THEN 0
    ELSE IF delay = NaN THEN NaN
    ELSE LET elapsed == (dt - delay) % (freq * 2)
             time == IF elapsed >= freq
                     THEN ((2 * freq - elapsed) * EaseDen) \div freq
                     ELSE (elapsed * EaseDen) \div freq
             sqr == (time * time) \div EaseDen
         IN  (sqr * EaseDen) \div (2 * (sqr - time) + EaseDen)

get_height_color(height) ==
    LET high_color == Vector3(900, 400, 702)
        low_color == Vector3(800, 0, 600)
    IN  VAdd(low_color, VScale(VSub(high_color, low_color), height, EaseDen))

ease_out_cubic(number) ==
    LET t == Clamp01(number)
        u == TimeDen - t
    IN  EaseDen - (u * u * u * EaseDen) \div (TimeDen * TimeDen * TimeDen)

ease_in_ease_out_cubic(number) ==
    LET n == Clamp01(number)
        u == 2 * TimeDen - 2 * n
        cube == TimeDen * TimeDen * TimeDen
    IN  IF 2 * n < TimeDen
        THEN (4 * n * n * n * EaseDen) \div cube
        ELSE EaseDen - (u * u * u * EaseDen) \div (2 * cube)

\* AnimationTransition::lerp
Lerp(kind, start, end, number, delay) ==
    LET lerp_value ==
            CASE kind = "EaseInEaseOut" -> ease_in_ease_out_cubic(number)
              [] kind = "EaseInEaseOutLoop" ->
                    FSub(ease_in_ease_out_loop(number, delay, TimeDen), EaseDen \div 2)
              [] kind = "EaseOut" -> ease_out_cubic(number)
    IN  VAdd(start, VScale(VSub(end, start), lerp_value, EaseDen))

\* ------------------------------------------------------------- primitives
AnimationPersistentNew(movement_vector, animation_transition) ==
    [time |-> 0,
     movement_vector |-> movement_vector,
     animation_transition |-> animation_transition]

\* speed is in hundredths (40 is 0.4)
AnimationStepNew(movement_vector, speed, reversed, activated, one_time_animation, animation_transition) ==
    [movement_vector |-> movement_vector,
     time |-> 0,
     reversed |-> reversed,
     activated |-> activated,
     speed |-> speed,
     one_time_animation |-> one_time_animation,
     animating |-> FALSE,
     animation_transition |-> animation_transition]

StepType(step) ==
    [kind |-> "Step", anim |-> step]

PersistentType(persistent) ==
    [kind |-> "Persistent", anim |-> persistent]

\* ------------------------------------------------------------- instances
\* instances_list_cube with chunk (0, 0) and chunk_size (NumInstances, 1, 1)
instances_list_cube ==
    [n \in 1..NumInstances |->
        LET position == Units(n - 1, 0, 0)
            default_size == Units(1, 1, 1)
        IN  [position |-> position,
             color |-> Vector3(1000, 0, 0),
             size |-> default_size,
             bounding |-> VAdd(default_size, position)]]

\* the persistent animation the game seeds every record with
BobPersistent ==
    AnimationPersistentNew(Units(0, 1, 0), "EaseInEaseOutLoop")

\* AnimationHandler::new(instance_controller, [Persistent(persistent)])
AnimationHandlerNew(insts, persistents, steps) ==
    [i \in 1..Len(insts) |->
        [activated |-> TRUE,
         start |-> insts[i].position,
         current_pos |-> insts[i].position,
         grid_pos |-> insts[i].position,
         persistent_animation |-> persistents,
         animations |-> steps,
         color |-> Vector3(0, 0, 0),
         time |-> 0]]

\* ------------------------------------------------------------- animate
\* the delay of a record: (current_pos.x + current_pos.z) * 0.05 seconds
Delay(current_pos) ==
    FMul(FAdd(current_pos.x, current_pos.z), TimeDen, 20 * PosScale)

\* the persistent loop of animate: every persistent advances by delta and adds
\* lerp(start, start + movement_vector, time, delay) - start
RECURSIVE PersistentSum(_, _, _, _)
PersistentSum(persistents, start, delay, k) ==
    IF k > Len(persistents) THEN Zero3
    ELSE LET p == persistents[k]
         IN  VAdd(VSub(Lerp(p.animation_transition, start,
                            VAdd(start, p.movement_vector), p.time, delay),
                       start),
                  PersistentSum(persistents, start, delay, k + 1))

\* faulty variant: the reversed flag is ignored and every step runs forward
StepAdvanceForwardOnly(step, delta) ==
    Clamp01(step.time + TDiv(delta * step.speed, 100))

StepAdvance(step, delta) ==
    LET inc == TDiv(delta * step.speed, 100)
    IN  IF step.reversed THEN Clamp01(step.time - inc) ELSE Clamp01(step.time + inc)

\* the movement a step adds in this tick, at its advanced time
StepMovement(step, start, time) ==
    IF step.reversed
    THEN VSub(Zero3,
              VSub(Lerp(step.animation_transition,
                        VAdd(start, step.movement_vector), start, time, 0),
                   VAdd(start, step.movement_vector)))
    ELSE VSub(Lerp(step.animation_transition, start,
                   VAdd(start, step.movement_vector), time, 0),
              start)

\* the fold of a finished one-shot step into the anchor
FoldsIntoStart(step) ==
    step.one_time_animation /\ step.time = TimeDen

\* faulty variant: a finished one-shot step is kept
StepFinishedReversedOnly(step) ==
    step.reversed /\ step.time = 0

\* faulty variant: every step that has reached 1.0 is dropped
StepFinishedAtEnd(step) ==
    (step.reversed /\ step.time = 0) \/ step.time = TimeDen

\* the retain of animate keeps a step unless this holds
StepFinished(step) ==
    (step.reversed /\ step.time = 0) \/ (step.one_time_animation /\ step.time = TimeDen)

\* faulty variant: the retain keeps every step
RetainAll(steps) ==
    steps

Retain(steps) ==
    SelectSeq(steps, LAMBDA step : ~StepFinished(step))

\* the step loop of animate, from step k on: start is folded as the loop goes
RECURSIVE StepLoop(_, _, _, _, _)
StepLoop(steps, k, start, step_delta, delta) ==
    IF k > Len(steps)
    THEN [start |-> start, step_delta |-> step_delta, animations |-> steps]
    ELSE IF ~steps[k].activated
    THEN StepLoop(steps, k + 1, start, step_delta, delta)
    ELSE LET time == StepAdvance(steps[k], delta)
             step_movement == StepMovement(steps[k], start, time)
             step == [steps[k] EXCEPT
                        !.time = time,
                        !.animating = IF time = 0 \/ time = TimeDen
                                      THEN FALSE ELSE @]
             start1 == IF FoldsIntoStart(step) THEN VAdd(start, step_movement)
                       ELSE start
         IN  StepLoop([steps EXCEPT ![k] = step], k + 1, start1,
                      VAdd(step_delta, step_movement), delta)

AnimateRecord(animation, dt) ==
    LET time == animation.time + dt
        delay == Delay(animation.current_pos)
        persistents == [k \in 1..Len(animation.persistent_animation) |->
                          [animation.persistent_animation[k] EXCEPT !.time = @ + dt]]
        total_movement == VAdd(animation.start,
                               PersistentSum(persistents, animation.start, delay, 1))
        lerp == ease_in_ease_out_loop(time, delay, TimeDen)
        loop == StepLoop(animation.animations, 1, animation.start, Zero3, dt)
    IN  [animation EXCEPT
            !.time = time,
            !.persistent_animation = persistents,
            !.color = get_height_color(lerp),
            !.start = loop.start,
            !.grid_pos = VAdd(loop.start, loop.step_delta),
            !.current_pos = VAdd(total_movement, loop.step_delta),
            !.animations = Retain(loop.animations)]

animate(ml, dis, dt) ==
    IF dis THEN ml
    ELSE [i \in 1..Len(ml) |->
            IF ml[i].activated THEN AnimateRecord(ml[i], dt) ELSE ml[i]]

\* ------------------------------------------------------------- registry
set_animation(ml, dis, index, animation_type) ==
    IF dis THEN ml
    ELSE IF ~InRange(ml, index) THEN ml
    ELSE IF animation_type.kind = "Persistent"
    THEN [ml EXCEPT ![index + 1].persistent_animation = Append(@, animation_type.anim)]
    ELSE [ml EXCEPT ![index + 1].animations = Append(@, animation_type.anim)]

\* faulty variant: the flag of the last step visited wins
RECURSIVE LockedByLastStep(_, _, _)
LockedByLastStep(steps, k, locked) ==
    IF k > Len(steps) THEN locked
    ELSE LockedByLastStep(steps, k + 1, steps[k].one_time_animation)

\* the inner loop of is_locked over one record's steps
RECURSIVE LockedBySteps(_, _, _)
LockedBySteps(steps, k, locked) ==
    IF k > Len(steps) THEN locked
    ELSE LockedBySteps(steps, k + 1,
                       IF steps[k].one_time_animation
                       THEN steps[k].one_time_animation ELSE locked)

RECURSIVE LockedByRecords(_, _, _)
LockedByRecords(ml, i, locked) ==
    IF i > Len(ml) THEN locked
    ELSE LockedByRecords(ml, i + 1, LockedBySteps(ml[i].animations, 1, locked))

is_locked(ml) ==
    LockedByRecords(ml, 1, FALSE)

\* faulty variant: the flags of every record's steps are set
set_animation_state_every_record(ml, dis, index, state) ==
    IF dis THEN ml
    ELSE IF ~InRange(ml, index) THEN ml
    ELSE [i \in 1..Len(ml) |->
            [ml[i] EXCEPT !.animations =
                [k \in 1..Len(@) |-> [@[k] EXCEPT !.activated = state, !.animating = state]]]]

set_animation_state(ml, dis, index, state) ==
    IF dis THEN ml
    ELSE IF ~InRange(ml, index) THEN ml
    ELSE [ml EXCEPT ![index + 1].animations =
            [k \in 1..Len(@) |-> [@[k] EXCEPT !.activated = state, !.animating = state]]]

reverse(ml) ==
    [i \in 1..Len(ml) |->
        [ml[i] EXCEPT !.animations =
            [k \in 1..Len(@) |-> [@[k] EXCEPT !.reversed = TRUE]]]]

\* faulty variant: the persistent contribution is not taken off
ResetToCurrentPos(animation) ==
    animation.current_pos

\* the position reset_instance_position_to_current_position gives record i
ResetPosition(animation) ==
    LET delay == Delay(animation.current_pos)
        total_movement == PersistentSum(animation.persistent_animation,
                                        animation.start, delay, 1)
    IN  VSub(animation.current_pos, total_movement)

ResetApplies(ml, insts, i) ==
    i <= Len(insts) /\ ml[i].animations # <<>>

\* reset_instance_position_to_current_position: the records, then the instances
ResetRecords(ml, insts) ==
    [i \in 1..Len(ml) |->
        IF ResetApplies(ml, insts, i)
        THEN [ml[i] EXCEPT !.start = ResetPosition(ml[i]), !.animations = <<>>]
        ELSE ml[i]]

ResetInstances(ml, insts) ==
    [i \in 1..Len(insts) |->
        IF i <= Len(ml) /\ ResetApplies(ml, insts, i)
        THEN [insts[i] EXCEPT
                !.position = ResetPosition(ml[i]),
                !.bounding = VAdd(ml[i].current_pos, ResetPosition(ml[i]))]
        ELSE insts[i]]

\* faulty variant: only the position is synced
update_instance_position_only(ml, index, instance) ==
    IF ~InRange(ml, index) THEN instance
    ELSE IF ~Get(ml, index).activated THEN instance
    ELSE [instance EXCEPT !.position = Get(ml, index).current_pos]

update_instance(ml, index, instance) ==
    IF ~InRange(ml, index) THEN instance
    ELSE IF ~Get(ml, index).activated THEN instance
    ELSE [instance EXCEPT
            !.position = Get(ml, index).current_pos,
            !.bounding = VAdd(instance.size, Get(ml, index).current_pos),
            !.color = Get(ml, index).color]

\* ------------------------------------------------------------- shapes
\* the catalog: Rust and Buttplug have one cube, Viking one per instance, Castle
\* one more than there are instances; Home is a VoxelObjects tag no add_voxel
\* call names
VoxelObjects == {"Home", "Rust", "Buttplug", "Viking", "Castle"}

Line(n) ==
    [i \in 1..n |-> Units(i - 1, 2, 1)]

voxels_map ==
    [o \in {"Rust", "Buttplug", "Viking", "Castle"} |->
        [cubes |-> CASE o = "Rust" -> <<Units(0, 1, 1)>>
                     [] o = "Buttplug" -> <<Units(1, 1, 0)>>
                     [] o = "Viking" -> Line(NumInstances)
                     [] o = "Castle" -> Line(NumInstances + 1)]]

Some(x) == <<x>>

NoneOpt == <<>>

\* faulty variant: a missing shape reads as an empty one
get_object_or_empty(map, current_object) ==
    IF current_object \in DOMAIN map THEN Some(map[current_object])
    ELSE Some([cubes |-> <<>>])

get_object(map, current_object) ==
    IF current_object \in DOMAIN map THEN Some(map[current_object]) ELSE NoneOpt

\* faulty variant: the capacity check is off by one
TooLargeOffByOne(n_cubes, n_records) ==
    n_cubes > n_records + 1

\* line 100: the capacity check
TooLarge(n_cubes, n_records) ==
    n_cubes > n_records

Range(s) ==
    {s[i] : i \in 1..Len(s)}

\* every order a shuffle can leave the sequence in
Shuffles(s) ==
    {[i \in 1..Len(s) |-> s[p[i]]] :
        p \in {q \in [1..Len(s) -> 1..Len(s)] : \A a, b \in 1..Len(s) : q[a] = q[b] => a = b}}

\* (0..n).collect()
Indices(n) ==
    [i \in 1..n |-> i - 1]

ISqrt(n) ==
    CHOOSE r \in 0..1000 : r * r <= n /\ (r + 1) * (r + 1) > n

\* cos and sin of n * PI * (sqrt(5) - 1), in thousandths
CosPhi(n) ==
    CASE n = 0 -> 1000 [] n = 1 -> -737 [] n = 2 -> 87 [] n = 3 -> 608
      [] n = 4 -> -985 [] n = 5 -> 844 [] OTHER -> -260

SinPhi(n) ==
    CASE n = 0 -> 0 [] n = 1 -> -675 [] n = 2 -> 996 [] n = 3 -> -794
      [] n = 4 -> 174 [] n = 5 -> 537 [] OTHER -> -966

\* point n of fibonacci_sphere(points, scalar); 0.0 / 0.0 is NaN when points = 1
FibPoint(points, n, scalar) ==
    IF points = 1 THEN Vector3(NaN, NaN, NaN)
    ELSE LET y == 1000 - (2000 * n) \div (points - 1)
             radius == ISqrt(1000000 - y * y)
             x == TDiv(CosPhi(n) * radius, 1000)
             z == TDiv(SinPhi(n) * radius, 1000)
         IN  Vector3(TDiv(x * scalar * PosScale, 1000),
                     TDiv(y * scalar * PosScale, 1000),
                     TDiv(z * scalar * PosScale, 1000))

fibonacci_sphere(points, scalar) ==
    [k \in 1..points |-> FibPoint(points, k - 1, scalar)]

\* grid_pos.distance(origin) <= 500.0
WithinDisperseRadius(grid_pos) ==
    LET lim == 500 * PosScale
        ax == IF grid_pos.x < 0 THEN -grid_pos.x ELSE grid_pos.x
        ay == IF grid_pos.y < 0 THEN -grid_pos.y ELSE grid_pos.y
        az == IF grid_pos.z < 0 THEN -grid_pos.z ELSE grid_pos.z
    IN  /\ ~IsNaN3(grid_pos)
        /\ ax <= lim /\ ay <= lim /\ az <= lim
        /\ ax * ax + ay * ay + az * az <= lim * lim

\* lines 138-160: cube i takes the instance popped off the shuffled pool
RECURSIVE AssignCubes(_, _, _, _, _, _, _, _)
AssignCubes(cubes, i, pool, new_current_cubes, ml, dis, amplify, is_onetime) ==
    IF i > Len(cubes)
    THEN [ml |-> ml, new_current_cubes |-> new_current_cubes, panicked |-> FALSE]
    ELSE IF pool = <<>>
    THEN [ml |-> ml, new_current_cubes |-> new_current_cubes, panicked |-> TRUE]
    ELSE LET instance_index == pool[Len(pool)]
             movement_vector == VSub(cubes[i], Get(ml, instance_index).grid_pos)
             animation == StepType(AnimationStepNew(
                              VScale(movement_vector, amplify, 1), 40, FALSE, FALSE,
                              is_onetime, "EaseInEaseOut"))
             ml1 == set_animation(ml, dis, instance_index, animation)
             ml2 == set_animation_state(ml1, dis, instance_index, TRUE)
         IN  AssignCubes(cubes, i + 1, SubSeq(pool, 1, Len(pool) - 1),
                         Append(new_current_cubes, instance_index),
                         ml2, dis, amplify, is_onetime)

\* faulty variant: the instances left over get no step
ReleaseNone(remaining_indices, k, circle, ml, dis, is_onetime) ==
    ml

\* lines 171-200: the instances left over move to the points of the sphere
RECURSIVE ReleaseRest(_, _, _, _, _, _)
ReleaseRest(remaining_indices, k, circle, ml, dis, is_onetime) ==
    IF k > Len(remaining_indices) THEN ml
    ELSE LET i == remaining_indices[k]
             point == circle[Len(circle)]
             grid_pos == Get(ml, i).grid_pos
             movement_vector == IF WithinDisperseRadius(grid_pos)
                                THEN VSub(point, grid_pos) ELSE Zero3
             animation == StepType(AnimationStepNew(
                              movement_vector, 25, FALSE, FALSE,
                              is_onetime, "EaseInEaseOut"))
             ml1 == set_animation(ml, dis, i, animation)
             ml2 == set_animation_state(ml1, dis, i, TRUE)
         IN  ReleaseRest(remaining_indices, k + 1, SubSeq(circle, 1, Len(circle) - 1),
                         ml2, dis, is_onetime)

\* faulty variant: the pool is drawn from every instance, whatever is shown
PoolsFromAll(current_cubes0, n_cubes, n_records) ==
    Shuffles(Indices(n_records))

\* lines 106-136: the pools the two shuffles can produce; <<>> stands for the
\* panic of cube_indicees_excluded.get(n).unwrap()
Pools(current_cubes0, n_cubes, n_records) ==
    LET instance_indices == Indices(n_records)
        current == IF current_cubes0 = <<>> THEN instance_indices ELSE current_cubes0
        excluded == SelectSeq(instance_indices, LAMBDA i : i \notin Range(current))
        deficit == n_cubes - Len(current)
    IN  IF n_cubes > Len(current)
        THEN IF deficit > Len(excluded) THEN {}
             ELSE UNION {Shuffles(current \o SubSeq(e, 1, deficit)) : e \in Shuffles(excluded)}
        ELSE Shuffles(current)

\* the outcomes of transition_to_object_base
\* (set_animated_color of line 196 is not part of the sources at hand; it
\* selects how a record is coloured and moves nothing)
transition_to_object_base(object, ml, dis, cur_cubes, amplify, is_onetime) ==
    LET found == get_object(voxels_map, object)
        keep == [current_voxel |-> object, current_cubes |-> cur_cubes,
                 movement_list |-> ml, panicked |-> FALSE]
    IN  IF found = NoneOpt THEN {keep}
        ELSE IF TooLarge(Len(found[1].cubes), Len(ml)) THEN {keep}
        ELSE LET cubes == found[1].cubes
                 pools == Pools(cur_cubes, Len(cubes), Len(ml))
             IN  IF pools = {} THEN {[keep EXCEPT !.panicked = TRUE]}
                 ELSE {LET a == AssignCubes(cubes, 1, pool, <<>>, ml, dis, amplify, is_onetime)
                           remaining_indices ==
                               SelectSeq(Indices(Len(ml)),
                                         LAMBDA i : i \notin Range(a.new_current_cubes))
                           circle == fibonacci_sphere(Len(remaining_indices), 750)
                       IN  IF a.panicked
                           THEN [keep EXCEPT !.movement_list = a.ml, !.panicked = TRUE]
                           ELSE [current_voxel |-> object,
                                 current_cubes |-> a.new_current_cubes,
                                 movement_list |-> ReleaseRest(remaining_indices, 1, circle,
                                                               a.ml, dis, is_onetime),
                                 panicked |-> FALSE]
                       : pool \in pools}

\* ------------------------------------------------------------- scroll
\* the transition_map of the Gameloop, keys in PositionScale scroll units
transition_map ==
    (500 \div PositionScale) :> "Home" @@ (1000 \div PositionScale) :> "CSharp"
    @@ (1500 \div PositionScale) :> "Rust" @@ (2000 \div PositionScale) :> "CPlusPLus"
    @@ (2500 \div PositionScale) :> "Containerization"

\* a map in which two buckets carry the same value
repeating_map ==
    (500 \div PositionScale) :> "Home" @@ (1000 \div PositionScale) :> "Rust"
    @@ (1500 \div PositionScale) :> "Rust" @@ (2000 \div PositionScale) :> "Home"

TransitionMaps == {transition_map, repeating_map}

\* TransitionHandler::new(transition_map)
TransitionHandlerNew(map) ==
    [transition_map |-> map, last_transition |-> NoneOpt]

is_between(start, end, number) ==
    number >= start /\ end > number

\* the keys of a BTreeMap in the order iter() visits them
RECURSIVE KeysAscending(_)
KeysAscending(keys) ==
    IF keys = {} THEN <<>>
    ELSE LET n == CHOOSE x \in keys : \A y \in keys : x <= y
         IN  <<n>> \o KeysAscending(keys \ {n})

\* the loop of get_transition_once from key k on, start being the key before
RECURSIVE FindTransition(_, _, _, _, _)
FindTransition(map, keys, k, start, position) ==
    IF k > Len(keys) THEN NoneOpt
    ELSE IF is_between(start, keys[k], position) THEN Some(map[keys[k]])
    ELSE FindTransition(map, keys, k + 1, keys[k], position)

\* faulty variant: a position outside every bucket leaves last_transition
get_transition_once_sticky(handler, position) ==
    LET transition == FindTransition(handler.transition_map,
                                     KeysAscending(DOMAIN handler.transition_map),
                                     1, 0, position)
    IN  IF transition = NoneOpt \/ handler.last_transition = transition
        THEN [handler |-> handler, result |-> NoneOpt]
        ELSE [handler |-> [handler EXCEPT !.last_transition = transition],
              result |-> transition]

\* get_transition_once(position): the handler afterwards and the value returned
get_transition_once(handler, position) ==
    LET transition == FindTransition(handler.transition_map,
                                     KeysAscending(DOMAIN handler.transition_map),
                                     1, 0, position)
    IN  IF /\ handler.last_transition # NoneOpt
           /\ transition # NoneOpt
           /\ handler.last_transition = transition
        THEN [handler |-> handler, result |-> NoneOpt]
        ELSE [handler |-> [handler EXCEPT !.last_transition = transition],
              result |-> transition]

\* ------------------------------------------------------------- state
\* movement_list, disabled: the AnimationHandler; instances: the instance list of
\* the InstanceController; current_voxel, current_cubes: the VoxelHandler;
\* panicked: an unwrap() on None has aborted the program.
\* calls counts the calls made; last is the latest call and its arguments, prev
\* the records before it, explode_anchor the anchors at an explode_object call
\* on a registry at rest while only animate has run since.
\* eval is the function evaluated last, with its arguments and its values.
\* assigned is, per record, the cube a transition_to_object made on an enabled
\* registry at rest gave it, while only animate has run since.
\* auto is camera_controller.auto and elapsed_time the field of the Gameloop;
\* transitions lists the transition_to_object calls the last handler made, each
\* with what is_locked() would have answered at the call.
\* uploads lists the workers update_buffer_multithreaded has spawned, in the order
\* of dispatch: each with the data of its clone of the instance list, the records
\* at the dispatch, and how far it has run; instance_buffer is the content of
\* the instance buffer and atomic_usize the instance count render reads.
\* transition_handler is the TransitionHandler of the scroll position: its
\* transition_map and its last_transition.
VARIABLES movement_list, disabled, instances,
          current_voxel, current_cubes, panicked, calls, last, prev, explode_anchor,
          eval, assigned, auto, elapsed_time, transitions,
          uploads, instance_buffer, atomic_usize, transition_handler

vars == <<movement_list, disabled, instances,
          current_voxel, current_cubes, panicked, calls, last, prev, explode_anchor,
          eval, assigned, auto, elapsed_time, transitions,
          uploads, instance_buffer, atomic_usize, transition_handler>>

\* Instance::to_raw of every instance: the model matrix carries the position
to_raw(insts) ==
    [i \in 1..Len(insts) |-> [position |-> insts[i].position, color |-> insts[i].color]]

NoEval == [f |-> "none"]

None == "None"

Op(name, object, index, n) ==
    [op |-> name, object |-> object, index |-> index, n |-> n]

\* 1.25 s and 2.5 s
DtSet == {(5 * TimeDen) \div 4, (5 * TimeDen) \div 2}

\* the animations the callers of set_animation pass: the click explosion of
\* Gameloop::process_event, one-shot steps, a step born reversed, and a second bob
AnimationInputs ==
    {StepType(AnimationStepNew(Units(1, 0, 0), 100, FALSE, TRUE, FALSE, "EaseOut")),
     StepType(AnimationStepNew(Units(0, 0, 2), 40, FALSE, TRUE, TRUE, "EaseInEaseOut")),
     StepType(AnimationStepNew(Units(2, 0, 0), 40, FALSE, FALSE, TRUE, "EaseInEaseOut")),
     StepType(AnimationStepNew(Units(0, 3, 0), 40, TRUE, FALSE, TRUE, "EaseInEaseOut")),
     PersistentType(BobPersistent)}

AmplifySet == {2}

Init ==
    /\ instances = instances_list_cube
    /\ movement_list = AnimationHandlerNew(instances_list_cube, <<BobPersistent>>, <<>>)
    /\ disabled = FALSE
    /\ current_voxel = None
    /\ current_cubes = <<>>
    /\ panicked = FALSE
    /\ calls = 0
    /\ last = Op("new", None, 0, 0)
    /\ prev = AnimationHandlerNew(instances_list_cube, <<BobPersistent>>, <<>>)
    /\ explode_anchor = <<>>
    /\ eval = NoEval
    /\ assigned = <<>>
    /\ auto = TRUE
    /\ elapsed_time = 0
    /\ transitions = <<>>
    /\ uploads = <<>>
    /\ instance_buffer = to_raw(instances_list_cube)
    /\ atomic_usize = Len(instances_list_cube)
    /\ transition_handler = TransitionHandlerNew(transition_map)

Budget ==
    ~panicked /\ calls < MaxCalls

\* lines 139-142: per record, the cube whose pop gave it the record's instance
CubeOf(cubes, new_current_cubes, n_records) ==
    [i \in 1..n_records |->
        IF \E c \in 1..Len(new_current_cubes) : new_current_cubes[c] = i - 1
        THEN Some(cubes[CHOOSE c \in 1..Len(new_current_cubes) : new_current_cubes[c] = i - 1])
        ELSE NoneOpt]

AtRest(ml) ==
    \A i \in 1..Len(ml) : ml[i].animations = <<>>

Track(name, object, index, n) ==
    /\ calls' = calls + 1
    /\ last' = Op(name, object, index, n)
    /\ prev' = movement_list
    /\ UNCHANGED <<eval, auto, elapsed_time, uploads, instance_buffer, atomic_usize,
                   transition_handler>>
    /\ transitions' =
          IF name = "transition_to_object"
          THEN <<[object |-> object, locked |-> is_locked(movement_list)]>>
          ELSE <<>>
    /\ assigned' =
          IF name = "animate" THEN assigned
          ELSE IF /\ name = "transition_to_object"
                  /\ object \in DOMAIN voxels_map
                  /\ ~disabled
                  /\ AtRest(movement_list)
                  /\ ~TooLarge(Len(voxels_map[object].cubes), Len(movement_list))
                  /\ ~panicked'
          THEN CubeOf(voxels_map[object].cubes, current_cubes', Len(movement_list))
          ELSE <<>>

RoomForStep(i) ==
    Len(movement_list[i].animations) < MaxSteps

Animate(dt) ==
    /\ Budget
    /\ movement_list' = animate(movement_list, disabled, dt)
    /\ Track("animate", None, 0, dt)
    /\ UNCHANGED <<disabled, instances, current_voxel, current_cubes, panicked,
                   explode_anchor>>

SetAnimation(index, animation_type) ==
    /\ Budget
    /\ InRange(movement_list, index) =>
          IF animation_type.kind = "Step" THEN RoomForStep(index + 1)
          ELSE Len(movement_list[index + 1].persistent_animation) < MaxPersistent
    /\ movement_list' = set_animation(movement_list, disabled, index, animation_type)
    /\ Track("set_animation", None, index, 0)
    /\ explode_anchor' = <<>>
    /\ UNCHANGED <<disabled, instances, current_voxel, current_cubes, panicked>>

SetAnimationState(index, state) ==
    /\ Budget
    /\ movement_list' = set_animation_state(movement_list, disabled, index, state)
    /\ Track("set_animation_state", None, index, IF state THEN 1 ELSE 0)
    /\ explode_anchor' = <<>>
    /\ UNCHANGED <<disabled, instances, current_voxel, current_cubes, panicked>>

Reverse ==
    /\ Budget
    /\ movement_list' = reverse(movement_list)
    /\ Track("reverse", None, 0, 0)
    /\ explode_anchor' = <<>>
    /\ UNCHANGED <<disabled, instances, current_voxel, current_cubes, panicked>>

Enable ==
    /\ Budget
    /\ disabled
    /\ disabled' = FALSE
    /\ Track("enable", None, 0, 0)
    /\ explode_anchor' = <<>>
    /\ UNCHANGED <<movement_list, instances, current_voxel, current_cubes, panicked>>

Disable ==
    /\ Budget
    /\ ~disabled
    /\ disabled' = TRUE
    /\ Track("disable", None, 0, 0)
    /\ explode_anchor' = <<>>
    /\ UNCHANGED <<movement_list, instances, current_voxel, current_cubes, panicked>>

Reset ==
    /\ Budget
    /\ movement_list' = ResetRecords(movement_list, instances)
    /\ instances' = ResetInstances(movement_list, instances)
    /\ Track("reset", None, 0, 0)
    /\ explode_anchor' = <<>>
    /\ UNCHANGED <<disabled, current_voxel, current_cubes, panicked>>

\* update_instance(index, instance): Gameloop::update passes instance index of the
\* instance list; an index past the last record is passed with instance 0
UpdateInstance(index) ==
    /\ Budget
    /\ LET slot == IF InRange(instances, index) THEN index + 1 ELSE 1
       IN  instances' = [instances EXCEPT
                           ![slot] = update_instance(movement_list, index, @)]
    /\ Track("update_instance", None, index, 0)
    /\ explode_anchor' = <<>>
    /\ UNCHANGED <<movement_list, disabled, current_voxel, current_cubes, panicked>>

ApplyOutcome(r) ==
    /\ current_voxel' = r.current_voxel
    /\ current_cubes' = r.current_cubes
    /\ movement_list' = r.movement_list
    /\ panicked' = r.panicked

\* transition_to_object(object, animation_handler)
TransitionToObject(object) ==
    /\ Budget
    /\ \A i \in 1..Len(movement_list) : RoomForStep(i)
    /\ \E r \in transition_to_object_base(object, movement_list, disabled,
                                          current_cubes, 1, TRUE) : ApplyOutcome(r)
    /\ Track("transition_to_object", object, 0, 0)
    /\ explode_anchor' = <<>>
    /\ UNCHANGED <<disabled, instances>>

Anchors(ml) ==
    [i \in 1..Len(ml) |-> [start |-> ml[i].start, grid_pos |-> ml[i].grid_pos]]

\* explode_object(animation_handler, amplify): current_voxel.unwrap() panics on None
ExplodeObject(amplify) ==
    /\ Budget
    /\ \A i \in 1..Len(movement_list) : RoomForStep(i)
    /\ IF current_voxel = None
       THEN /\ panicked' = TRUE
            /\ UNCHANGED <<current_voxel, current_cubes, movement_list>>
       ELSE \E r \in transition_to_object_base(current_voxel, movement_list, disabled,
                                               current_cubes, amplify, FALSE) :
                ApplyOutcome(r)
    /\ Track("explode_object", current_voxel, 0, amplify)
    /\ explode_anchor' =
          IF /\ \A i \in 1..Len(movement_list) : movement_list[i].animations = <<>>
             /\ \A i \in 1..Len(movement_list) : Len(movement_list'[i].animations) = 1
          THEN Anchors(movement_list) ELSE <<>>
    /\ UNCHANGED <<disabled, instances>>

\* the calls of the shape assignment engine and of the registry's global switches
Next ==
    \/ \E dt \in DtSet : Animate(dt)
    \/ Reverse
    \/ Enable
    \/ Disable
    \/ Reset
    \/ \E object \in VoxelObjects \ {"Rust"} : TransitionToObject(object)
    \/ \E amplify \in AmplifySet : ExplodeObject(amplify)

Spec == Init /\ [][Next]_vars

\* the indices the registry is called with: the first record, the last record
\* and the first index past the end
RegistryIndices == {0, NumInstances - 1, NumInstances}

\* the calls of the registry alone
RegistryNext ==
    \/ \E dt \in DtSet : Animate(dt)
    \/ \E index \in RegistryIndices, a \in AnimationInputs : SetAnimation(index, a)
    \/ \E index \in RegistryIndices, state \in BOOLEAN : SetAnimationState(index, state)
    \/ Reverse
    \/ Enable
    \/ Disable
    \/ Reset
    \/ \E index \in {0, NumInstances} : UpdateInstance(index)

RegistrySpec == Init /\ [][RegistryNext]_vars

\* ------------------------------------------------------------- driving loop
\* what a handler of the Gameloop works on
GameState ==
    [ml |-> movement_list, insts |-> instances, voxel |-> current_voxel,
     cubes |-> current_cubes, panicked |-> panicked, transitions |-> <<>>]

\* reset_instance_position_to_current_position(instances)
ResetIn(st) ==
    [st EXCEPT !.ml = ResetRecords(st.ml, st.insts),
               !.insts = ResetInstances(st.ml, st.insts)]

\* voxel_helper.transition_to_object(object, animation_handler)
TransitionIn(st, object) ==
    IF st.panicked THEN {st}
    ELSE {[st EXCEPT !.ml = r.movement_list,
                     !.voxel = r.current_voxel,
                     !.cubes = r.current_cubes,
                     !.panicked = r.panicked,
                     !.transitions = Append(@, [object |-> object,
                                                locked |-> is_locked(st.ml)])] :
             r \in transition_to_object_base(object, st.ml, disabled, st.cubes, 1, TRUE)}

\* voxel_helper.explode_object(animation_handler, amplify)
ExplodeIn(st, amplify) ==
    IF st.voxel = None THEN {[st EXCEPT !.panicked = TRUE]}
    ELSE {[st EXCEPT !.ml = r.movement_list,
                     !.voxel = r.current_voxel,
                     !.cubes = r.current_cubes,
                     !.panicked = r.panicked] :
             r \in transition_to_object_base(st.voxel, st.ml, disabled, st.cubes,
                                             amplify, FALSE)}

\* lines 131-154: what the scroll position triggers; Home only steers the camera
ScrollIn(st, scroll) ==
    IF scroll = NoneOpt \/ scroll = Some("Home") THEN {st}
    ELSE TransitionIn(ResetIn(st), scroll[1])

AutoAfterScroll(scroll) ==
    IF scroll = NoneOpt THEN auto ELSE scroll = Some("Home")

\* floor(elapsed_time % 24.0)
AnimationPhase(elapsed) ==
    (elapsed % (24 * TimeDen)) \div TimeDen

\* lines 158-188: the automatic show, one shape every eight seconds
AutoIn(st, is_auto, elapsed) ==
    LET ready == ~is_locked(st.ml)
        phase == AnimationPhase(elapsed)
    IN  IF st.panicked \/ ~is_auto \/ ~ready \/ phase \notin {0, 8, 16} THEN {st}
        ELSE TransitionIn(ResetIn(st), CASE phase = 0 -> "Buttplug"
                                         [] phase = 8 -> "Viking"
                                         [] phase = 16 -> "Castle")

EventBudget ==
    ~panicked /\ calls < MaxEvents

\* the handler ends in state st
EndIn(st, name, object, n) ==
    /\ movement_list' = st.ml
    /\ instances' = st.insts
    /\ current_voxel' = st.voxel
    /\ current_cubes' = st.cubes
    /\ panicked' = st.panicked
    /\ transitions' = st.transitions
    /\ calls' = calls + 1
    /\ last' = Op(name, object, 0, n)
    /\ prev' = movement_list
    /\ explode_anchor' = <<>>
    /\ assigned' = <<>>
    /\ UNCHANGED <<eval, instance_buffer, atomic_usize, transition_handler>>

\* the frame times of Gameloop::update: 1.25 s and 8.75 s
FrameDtSet == {(5 * TimeDen) \div 4, (35 * TimeDen) \div 4}

\* what transition_handler.trigger_transition(scroll_y) answers
ScrollInputs == {NoneOpt, Some("Home"), Some("Rust")}

\* update_buffer_multithreaded: the instance list is cloned and a worker spawned
\* on the clone; records are the records the instances were synced from
update_buffer_multithreaded(workers, insts, records) ==
    Append(workers, [data |-> to_raw(insts), records |-> records, pc |-> "spawned"])

\* Gameloop::update(dt, scroll_y)
Update(dt, scroll) ==
    /\ EventBudget
    /\ LET ml1 == animate(movement_list, disabled, dt)
           st1 == [GameState EXCEPT
                      !.ml = ml1,
                      !.insts = [i \in 1..Len(instances) |->
                                    update_instance(ml1, i - 1, instances[i])]]
           is_auto == AutoAfterScroll(scroll)
           elapsed == elapsed_time + dt
       IN  /\ \E st2 \in ScrollIn(st1, scroll) :
                /\ \E st3 \in AutoIn(st2, is_auto, elapsed) :
                      EndIn(st3, "update", None, dt)
                /\ uploads' = IF st2.panicked THEN uploads
                               ELSE update_buffer_multithreaded(uploads, st2.insts, ml1)
                /\ elapsed_time' = IF st2.panicked THEN elapsed_time ELSE elapsed
           /\ auto' = is_auto
    /\ UNCHANGED disabled

Keys == {"Space", "Delete", "Insert", "Home", "End", "PageUp", "PageDown", "ScrollLock"}

\* Gameloop::process_event with a pressed key
KeyPressed(key) ==
    /\ EventBudget
    /\ key \in {"End", "PageUp", "PageDown", "ScrollLock"}
          => \A i \in 1..Len(movement_list) : RoomForStep(i)
    /\ auto' = CASE key = "Space" -> ~auto
                 [] key = "Home" -> TRUE
                 [] OTHER -> auto
    /\ disabled' = IF key = "Insert" THEN ~disabled ELSE disabled
    /\ \E st \in CASE key = "Delete" -> {[GameState EXCEPT !.ml = reverse(movement_list)]}
                  [] key = "Home" -> {ResetIn(GameState)}
                  [] key = "End" -> TransitionIn(GameState, "Viking")
                  [] key = "PageUp" -> TransitionIn(GameState, "Buttplug")
                  [] key = "PageDown" -> TransitionIn(GameState, "Castle")
                  [] key = "ScrollLock" -> ExplodeIn(GameState, 25)
                  [] OTHER -> {GameState} :
          EndIn(st, "process_event", key, 0)
    /\ UNCHANGED <<elapsed_time, uploads>>

\* faulty variant: the worker reads the instance list of the controller
live_instances(worker, insts) ==
    to_raw(insts)

\* the data a worker uploads: the instances it was spawned with
worker_data(worker, insts) ==
    worker.data

\* queue.write_buffer(&instance_buffer, 0, data): data replaces the head of the
\* buffer
write_buffer(buffer, data) ==
    [i \in 1..Len(buffer) |-> IF i <= Len(data) THEN data[i] ELSE buffer[i]]

\* worker w of update_buffer_multithreaded writes its data to the buffer
WorkerWrite(w) ==
    /\ ~panicked
    /\ uploads[w].pc = "spawned"
    /\ instance_buffer' = write_buffer(instance_buffer, worker_data(uploads[w], instances))
    /\ uploads' = [uploads EXCEPT ![w].pc = "written"]
    /\ UNCHANGED <<movement_list, disabled, instances, current_voxel, current_cubes,
                   panicked, calls, last, prev, explode_anchor, eval, assigned, auto,
                   elapsed_time, transitions, atomic_usize, transition_handler>>

\* worker w stores the length of its data in the instance count and ends
WorkerStore(w) ==
    /\ ~panicked
    /\ uploads[w].pc = "written"
    /\ atomic_usize' = Len(uploads[w].data)
    /\ uploads' = [uploads EXCEPT ![w].pc = "done"]
    /\ UNCHANGED <<movement_list, disabled, instances, current_voxel, current_cubes,
                   panicked, calls, last, prev, explode_anchor, eval, assigned, auto,
                   elapsed_time, transitions, instance_buffer, transition_handler>>

\* the frames and the key events of the window, and the steps of the workers
\* the frames have spawned, which are never joined
GameloopNext ==
    \/ \E dt \in FrameDtSet, scroll \in ScrollInputs : Update(dt, scroll)
    \/ \E key \in Keys : KeyPressed(key)
    \/ \E w \in 1..Len(uploads) : WorkerWrite(w)
    \/ \E w \in 1..Len(uploads) : WorkerStore(w)

GameloopSpec == Init /\ [][GameloopNext]_vars

\* ------------------------------------------------------------- frames
\* no frame is modelled past this time: every step queued by MaxShows shows has
\* ended well before it
FrameCap == 6 * MaxShows * ((5 * TimeDen) \div 2)

\* a show: transition_to_object(object), at most MaxShows calls in all
Show(object) ==
    /\ calls < MaxShows
    /\ TransitionToObject(object)

\* a frame is due on the enabled registry while a one-shot step is queued or
\* calls remain, and before FrameCap
FrameDue ==
    /\ ~panicked
    /\ ~disabled
    /\ is_locked(movement_list) \/ calls < MaxShows
    /\ \A i \in 1..Len(movement_list) : movement_list[i].time < FrameCap

\* a frame: animate(dt) on the enabled registry; idle frames count as calls
Frame(dt) ==
    /\ FrameDue
    /\ movement_list' = animate(movement_list, disabled, dt)
    /\ calls' = IF is_locked(movement_list) THEN calls ELSE calls + 1
    /\ last' = Op("animate", None, 0, dt)
    /\ prev' = movement_list
    /\ transitions' = <<>>
    /\ UNCHANGED <<disabled, instances, current_voxel, current_cubes, panicked,
                   explode_anchor, eval, assigned, auto, elapsed_time,
                   uploads, instance_buffer, atomic_usize, transition_handler>>

FramesNext ==
    \/ \E object \in VoxelObjects \ {"Rust"} : Show(object)
    \/ \E dt \in DtSet : Frame(dt)

\* the steps of FramesNext that are frames, told by the call they record: a
\* Show records a transition_to_object in last, a Frame records an animate
FrameTaken ==
    /\ FrameDue
    /\ \E dt \in DtSet : last' = Op("animate", None, 0, dt)
    /\ prev' = movement_list

\* the event loop redraws for ever: a frame that stays due is taken
FramesSpec == Init /\ [][FramesNext]_vars /\ WF_<<last, prev>>(FrameTaken)

\* ease_in_ease_out_loop(elapsed, delay, period) evaluated at elapsed and one
\* full cycle later
EaseInEaseOutLoopCall(elapsed, delay, period) ==
    /\ eval' = [f |-> "ease_in_ease_out_loop",
                elapsed |-> elapsed, delay |-> delay, period |-> period,
                value |-> ease_in_ease_out_loop(elapsed, delay, period),
                cycle_later |-> ease_in_ease_out_loop(elapsed + 2 * period, delay, period)]
    /\ UNCHANGED <<movement_list, disabled, instances, current_voxel, current_cubes,
                   panicked, calls, last, prev, explode_anchor, assigned,
                   auto, elapsed_time, transitions, uploads, instance_buffer,
                   atomic_usize, transition_handler>>

\* the easing function called with every argument of the bounded ranges
EaseNext ==
    \E elapsed \in 0..MaxElapsed, delay \in (-MaxDelay)..MaxDelay, period \in 1..MaxPeriod :
        EaseInEaseOutLoopCall(elapsed, delay, period)

EaseSpec == Init /\ [][EaseNext]_vars

\* ------------------------------------------------------------- scroll calls
\* a handler is built on one of the maps
NewHandler(map) ==
    /\ transition_handler' = TransitionHandlerNew(map)
    /\ eval' = [f |-> "TransitionHandler::new", found |-> NoneOpt, returned |-> NoneOpt,
                position |-> 0, previous |-> NoneOpt, seen |-> {}]
    /\ UNCHANGED <<movement_list, disabled, instances, current_voxel, current_cubes,
                   panicked, calls, last, prev, explode_anchor, assigned, auto,
                   elapsed_time, transitions, uploads, instance_buffer, atomic_usize>>

\* get_transition_once(position); eval keeps the position, the value the bucket
\* search found, the value returned, the value the call before found and the
\* values returned since the handler was built
GetTransitionOnce(position) ==
    /\ LET r == get_transition_once(transition_handler, position)
           called == eval.f \in {"get_transition_once", "TransitionHandler::new"}
       IN  /\ transition_handler' = r.handler
           /\ eval' = [f |-> "get_transition_once",
                       position |-> position,
                       found |-> FindTransition(
                                    transition_handler.transition_map,
                                    KeysAscending(DOMAIN transition_handler.transition_map),
                                    1, 0, position),
                       returned |-> r.result,
                       previous |-> IF called THEN eval.found ELSE NoneOpt,
                       seen |-> IF called THEN eval.seen \cup Range(eval.returned)
                                ELSE {}]
    /\ UNCHANGED <<movement_list, disabled, instances, current_voxel, current_cubes,
                   panicked, calls, last, prev, explode_anchor, assigned, auto,
                   elapsed_time, transitions, uploads, instance_buffer, atomic_usize>>

\* the scroll handler called with every position of the bounded range
ScrollNext ==
    \/ \E map \in TransitionMaps : NewHandler(map)
    \/ \E position \in (-1)..MaxPosition : GetTransitionOnce(position)

ScrollSpec == Init /\ [][ScrollNext]_vars

\* ------------------------------------------------------------- properties
Records == 1..Len(movement_list)

StepsOf(ml, i) ==
    ml[i].animations

SameSteps ==
    \A i \in Records : StepsOf(movement_list', i) = StepsOf(movement_list, i)

\* the call just made is transition_to_object(object)
TransitionCalled(object) ==
    last'.op = "transition_to_object" /\ last'.object = object /\ calls' = calls + 1

\* the call just made is animate on an enabled registry
Ticked ==
    last'.op = "animate" /\ calls' = calls + 1 /\ ~disabled

\* the time an activated step has after a tick of dt
TimeAfter(step, dt) ==
    LET inc == TDiv(dt * step.speed, 100)
    IN  IF step.reversed
        THEN (IF step.time - inc < 0 THEN 0 ELSE step.time - inc)
        ELSE (IF step.time + inc > TimeDen THEN TimeDen ELSE step.time + inc)

\* step k of the list completes forward as a one-shot in a tick of dt
Completes(steps, k, dt) ==
    /\ steps[k].activated
    /\ steps[k].one_time_animation
    /\ ~steps[k].reversed
    /\ TimeAfter(steps[k], dt) = TimeDen

\* start plus the full movement of every step that completes in the tick
RECURSIVE StartAfter(_, _, _, _)
StartAfter(steps, k, start, dt) ==
    IF k > Len(steps) THEN start
    ELSE StartAfter(steps, k + 1,
                    IF Completes(steps, k, dt)
                    THEN VAdd(start, steps[k].movement_vector) ELSE start,
                    dt)

Count(steps, P(_)) ==
    Cardinality({k \in 1..Len(steps) : P(steps[k])})

IsOneShot(step) ==
    step.one_time_animation

IsReversed(step) ==
    step.reversed

\* C1: transition_to_object with a shape that has more cubes than the registry
\* has records returns without panicking, leaves current_cubes as it was and
\* appends no step to any record.
C1_TooLargeIsRejected ==
    [][\A object \in DOMAIN voxels_map :
          (TransitionCalled(object)
              /\ Len(voxels_map[object].cubes) > Len(movement_list))
          => (~panicked' /\ current_cubes' = current_cubes /\ SameSteps)]_vars

\* a too large shape was rejected while another shape was shown
C1_Witness ==
    /\ last.op = "transition_to_object"
    /\ last.object = "Castle"
    /\ current_cubes # <<>>
    /\ ~panicked

\* C2: a transition_to_object rejected for its size leaves the whole VoxelHandler
\* unchanged, current_voxel included.
C2_RejectedLeavesHandlerUnchanged ==
    [][\A object \in DOMAIN voxels_map :
          (TransitionCalled(object)
              /\ Len(voxels_map[object].cubes) > Len(movement_list))
          => (current_voxel' = current_voxel /\ current_cubes' = current_cubes)]_vars

\* C3: transition_to_object with an identifier that is not in voxels_map returns
\* without panicking, appends no step to any record and leaves current_cubes
\* unchanged.
C3_MissingShapeIsNoOp ==
    [][\A object \in VoxelObjects \ DOMAIN voxels_map :
          TransitionCalled(object)
          => (~panicked' /\ current_cubes' = current_cubes /\ SameSteps)]_vars

\* a missing shape was asked for while another shape was shown
C3_Witness ==
    /\ last.op = "transition_to_object"
    /\ last.object = "Home"
    /\ current_cubes # <<>>
    /\ ~panicked

\* C4: in the tick in which an activated, non-reversed one-shot step reaches
\* time 1.0 the record's start grows by the step's full movement, in every other
\* tick the step leaves start alone, and after the completing tick the step is
\* gone from the list, so it is never added a second time.
C4_OneShotFoldsOnce ==
    [][Ticked =>
          \A i \in Records :
             LET steps == StepsOf(movement_list, i)
                 after == StepsOf(movement_list', i)
                 gone == {k \in 1..Len(steps) :
                             /\ steps[k].one_time_animation
                             /\ \/ Completes(steps, k, last'.n)
                                \/ /\ steps[k].reversed
                                   /\ \/ steps[k].time = 0
                                      \/ steps[k].activated
                                         /\ TimeAfter(steps[k], last'.n) = 0}
             IN  /\ movement_list'[i].start
                       = StartAfter(steps, 1, movement_list[i].start, last'.n)
                 /\ \A k \in 1..Len(after) :
                       ~(after[k].one_time_animation /\ after[k].time = TimeDen)
                 /\ Count(after, IsOneShot) = Count(steps, IsOneShot) - Cardinality(gone)]_vars

\* a one-shot step of record 0 has completed: start moved by its movement
\* vector and the list is empty
C4_Witness ==
    /\ last.op = "animate"
    /\ \E k \in 1..Len(prev[1].animations) :
          /\ Completes(prev[1].animations, k, last.n)
          /\ movement_list[1].start
                = VAdd(prev[1].start, prev[1].animations[k].movement_vector)
          /\ movement_list[1].start # prev[1].start
    /\ movement_list[1].animations = <<>>

\* C5: a reversed step whose time reaches 0.0 is removed in that tick, and a
\* record whose steps are all reversed keeps its start, one-shot steps included.
C5_ReversedLeavesStart ==
    [][Ticked =>
          \A i \in Records :
             LET steps == StepsOf(movement_list, i)
                 after == StepsOf(movement_list', i)
                 gone == {k \in 1..Len(steps) :
                             /\ steps[k].reversed
                             /\ \/ steps[k].time = 0
                                \/ steps[k].activated
                                   /\ TimeAfter(steps[k], last'.n) = 0}
             IN  /\ \A k \in 1..Len(after) : ~(after[k].reversed /\ after[k].time = 0)
                 /\ Count(after, IsReversed) = Count(steps, IsReversed) - Cardinality(gone)
                 /\ (\A k \in 1..Len(steps) : steps[k].reversed)
                       => movement_list'[i].start = movement_list[i].start]_vars

\* a one-shot step that was in flight and reversed has reached 0.0 and is
\* gone, with start as before
C5_Witness ==
    /\ last.op = "animate"
    /\ Len(prev[1].animations) = 1
    /\ prev[1].animations[1].reversed
    /\ prev[1].animations[1].one_time_animation
    /\ prev[1].animations[1].activated
    /\ prev[1].animations[1].time > 0
    /\ movement_list[1].animations = <<>>
    /\ movement_list[1].start = prev[1].start

\* C6: while the registry is disabled, set_animation, set_animation_state,
\* animate and reverse leave every record unchanged.
C6_DisabledFreezesRecords ==
    [][(disabled /\ calls' = calls + 1
           /\ last'.op \in {"set_animation", "set_animation_state", "animate", "reverse"})
          => movement_list' = movement_list]_vars

\* C7: is_locked() is true exactly when some record's step list holds a step
\* with the one-shot flag.
C7_LockedIffOneShotStep ==
    is_locked(movement_list)
        <=> (\E i \in Records : \E k \in 1..Len(movement_list[i].animations) :
                movement_list[i].animations[k].one_time_animation)

\* a record holds a one-shot step followed by a step that is not one-shot
C7_Witness ==
    /\ is_locked(movement_list)
    /\ \E i \in Records :
          /\ Len(movement_list[i].animations) = 2
          /\ movement_list[i].animations[1].one_time_animation
          /\ ~movement_list[i].animations[2].one_time_animation

\* the blend factor of a step at its time
StepEase(step) ==
    CASE step.animation_transition = "EaseInEaseOut" -> ease_in_ease_out_cubic(step.time)
      [] step.animation_transition = "EaseOut" -> ease_out_cubic(step.time)
      [] OTHER -> FSub(ease_in_ease_out_loop(step.time, 0, TimeDen), EaseDen \div 2)

\* the displacements of the activated steps of a list
RECURSIVE StepContributions(_, _)
StepContributions(steps, k) ==
    IF k > Len(steps) THEN Zero3
    ELSE VAdd(IF steps[k].activated
              THEN VScale(steps[k].movement_vector, StepEase(steps[k]), EaseDen)
              ELSE Zero3,
              StepContributions(steps, k + 1))

\* the contributions of the persistent animations of a list, for a delay
RECURSIVE PersistentContributions(_, _, _)
PersistentContributions(persistents, delay, k) ==
    IF k > Len(persistents) THEN Zero3
    ELSE VAdd(VScale(persistents[k].movement_vector,
                     FSub(ease_in_ease_out_loop(persistents[k].time, delay, TimeDen),
                          EaseDen \div 2),
                     EaseDen),
              PersistentContributions(persistents, delay, k + 1))

\* C8: after every animate on an enabled registry, current_pos of every
\* activated record is start plus the persistent contributions plus the
\* displacements of the activated steps still in its list.
C8_CurrentPosIsSum ==
    [][Ticked =>
          \A i \in Records :
             movement_list[i].activated =>
                movement_list'[i].current_pos
                   = VAdd(VAdd(movement_list'[i].start,
                               PersistentContributions(
                                   movement_list'[i].persistent_animation,
                                   Delay(movement_list[i].current_pos), 1)),
                          StepContributions(StepsOf(movement_list', i), 1))]_vars

\* a tick removed the last step of an activated record, a reversed step whose
\* movement vector is the NaN point of fibonacci_sphere(1, r): start is finite,
\* no step is left, and current_pos is NaN
C8_Witness ==
    /\ last.op = "animate"
    /\ \E i \in Records :
          /\ prev[i].activated
          /\ Len(prev[i].animations) = 1
          /\ prev[i].animations[1].reversed
          /\ IsNaN3(prev[i].animations[1].movement_vector)
          /\ movement_list[i].animations = <<>>
          /\ ~IsNaN3(movement_list[i].start)
          /\ IsNaN3(movement_list[i].current_pos)

\* C9: grid_pos changes only in a tick in which a one-shot step of the record
\* reaches 1.0, and at the end of that tick it equals the new start.
C9_GridPosMovesOnCompletionOnly ==
    [][Ticked =>
          \A i \in Records :
             IF \E k \in 1..Len(StepsOf(movement_list, i)) :
                    Completes(StepsOf(movement_list, i), k, last'.n)
             THEN movement_list'[i].grid_pos = movement_list'[i].start
             ELSE movement_list'[i].grid_pos = movement_list[i].grid_pos]_vars

\* C10: once every step queued by explode_object on a shape at rest has
\* reached time 1.0, start and grid_pos of every record are as they were just
\* before the call.
C10_ExplodeKeepsAnchors ==
    (/\ explode_anchor # <<>>
     /\ last.op = "animate"
     /\ \A i \in Records : \A k \in 1..Len(movement_list[i].animations) :
           movement_list[i].animations[k].time = TimeDen)
    => \A i \in Records :
          /\ movement_list[i].start = explode_anchor[i].start
          /\ movement_list[i].grid_pos = explode_anchor[i].grid_pos

\* the call just made is a transition_to_object(object) that passed the lookup
\* and the capacity check and did not panic
TransitionSucceeded(object) ==
    /\ TransitionCalled(object)
    /\ object \in DOMAIN voxels_map
    /\ ~TooLarge(Len(voxels_map[object].cubes), Len(movement_list))
    /\ ~panicked'

Min(a, b) ==
    IF a <= b THEN a ELSE b

ReleasedExactlyOne ==
    /\ last.op = "transition_to_object"
    /\ ~panicked
    /\ ~disabled
    /\ last.object \in DOMAIN voxels_map
    /\ Len(voxels_map[last.object].cubes) = Len(movement_list) - 1

\* the step a record received last
NewestStep(i) ==
    movement_list[i].animations[Len(movement_list[i].animations)]

\* C12: fibonacci_sphere(1, r) is the single pole point (0, r, 0), computed
\* without a division by zero, so the one instance a transition releases gets a
\* step with a well-defined movement vector.
C12_SinglePointIsThePole ==
    ReleasedExactlyOne
    => /\ Len(fibonacci_sphere(1, 750)) = 1
       /\ fibonacci_sphere(1, 750)[1] = Vector3(0, 750 * PosScale, 0)
       /\ \A i \in Records :
             (i - 1) \notin Range(current_cubes)
             => ~IsNaN3(NewestStep(i).movement_vector)

\* a transition released exactly one instance and queued a NaN step for it
C12_Witness ==
    /\ ReleasedExactlyOne
    /\ \E i \in Records :
          /\ (i - 1) \notin Range(current_cubes)
          /\ NewestStep(i).speed = 25
          /\ IsNaN3(NewestStep(i).movement_vector)

\* the call just made is update_instance(index, instance)
UpdateCalled ==
    last'.op = "update_instance" /\ calls' = calls + 1

\* the place in the instance list of the instance passed with the index
SlotOf(index) ==
    IF InRange(instances, index) THEN index + 1 ELSE 1

\* C13: update_instance(i, inst) on an activated record writes current_pos,
\* size + current_pos and the record's colour into inst, also while the registry
\* is disabled, and never changes a record; with no record at i, or a record
\* that is not activated, inst is left as it was.
C13_UpdateInstanceSyncs ==
    [][UpdateCalled =>
          LET index == last'.index
              slot == SlotOf(index)
              inst == instances[slot]
              after == instances'[slot]
          IN  /\ movement_list' = movement_list
              /\ \A j \in 1..Len(instances) : j # slot => instances'[j] = instances[j]
              /\ IF InRange(movement_list, index) /\ Get(movement_list, index).activated
                 THEN /\ after.position = Get(movement_list, index).current_pos
                      /\ after.bounding = VAdd(inst.size, Get(movement_list, index).current_pos)
                      /\ after.color = Get(movement_list, index).color
                      /\ after.size = inst.size
                 ELSE after = inst]_vars

\* update_instance ran on a disabled registry after a tick had moved the record
C13_Witness ==
    /\ last.op = "update_instance"
    /\ last.index = 0
    /\ disabled
    /\ movement_list[1].current_pos # movement_list[1].start
    /\ instances[1].position = movement_list[1].current_pos
    /\ instances[1].color = movement_list[1].color

\* the call just made is the registry operation of that name
RegistryCalled(name) ==
    last'.op = name /\ calls' = calls + 1

\* record i with the animation appended to the list of its kind
WithAnimation(animation, animation_type) ==
    IF animation_type.kind = "Step"
    THEN [animation EXCEPT !.animations = Append(@, animation_type.anim)]
    ELSE [animation EXCEPT !.persistent_animation = Append(@, animation_type.anim)]

\* record i with activated and animating of every step set to state
WithStepState(animation, state) ==
    [animation EXCEPT !.animations =
        [k \in 1..Len(@) |-> [@[k] EXCEPT !.activated = state, !.animating = state]]]

\* C14: set_animation and set_animation_state with an index at or past the number
\* of records return without panicking and change no record; with a valid index
\* on an enabled registry set_animation appends the animation to that record
\* only, and set_animation_state sets activated and animating of every step of
\* that record only.
C14_IndexOutOfRangeIsNoOp ==
    [][/\ RegistryCalled("set_animation") =>
             IF last'.index >= Len(movement_list)
             THEN ~panicked' /\ movement_list' = movement_list
             ELSE ~disabled =>
                     \E a \in AnimationInputs :
                        movement_list' = [movement_list EXCEPT
                                             ![last'.index + 1] = WithAnimation(@, a)]
       /\ RegistryCalled("set_animation_state") =>
             IF last'.index >= Len(movement_list)
             THEN ~panicked' /\ movement_list' = movement_list
             ELSE ~disabled =>
                     movement_list' = [movement_list EXCEPT
                                          ![last'.index + 1] = WithStepState(@, last'.n = 1)]]_vars

\* set_animation_state(false) was called on an enabled registry with the first
\* index past the end while the first and the last record held activated steps
C14_Witness ==
    /\ last.op = "set_animation_state"
    /\ last.index = NumInstances
    /\ last.n = 0
    /\ ~disabled
    /\ \E k \in 1..Len(movement_list[1].animations) : movement_list[1].animations[k].activated
    /\ \E k \in 1..Len(movement_list[NumInstances].animations) :
          movement_list[NumInstances].animations[k].activated

\* C15: for a period p > 0, ease_in_ease_out_loop(elapsed, delay, p) is 0 when
\* elapsed < delay; from delay on it repeats after 2p, is 0 at delay, 1 at
\* delay + p and 0 at delay + 2p, and every value lies in [0, 1].
C15_EaseLoopIsPeriodic ==
    eval.f = "ease_in_ease_out_loop"
    => LET f(x) == ease_in_ease_out_loop(x, eval.delay, eval.period)
       IN  /\ eval.elapsed < eval.delay => eval.value = 0
           /\ eval.elapsed >= eval.delay => eval.cycle_later = eval.value
           /\ f(eval.delay) = 0
           /\ f(eval.delay + eval.period) = EaseDen
           /\ f(eval.delay + 2 * eval.period) = 0
           /\ eval.value >= 0 /\ eval.value <= EaseDen
           /\ eval.cycle_later >= 0 /\ eval.cycle_later <= EaseDen

\* the function was evaluated on its way up, strictly between 0 and 1, in the
\* second half of a cycle of a period longer than one time unit
C15_Witness ==
    /\ eval.f = "ease_in_ease_out_loop"
    /\ eval.period > 1
    /\ eval.elapsed - eval.delay > eval.period
    /\ eval.value > 0
    /\ eval.value < EaseDen
    /\ eval.cycle_later = eval.value

\* only animate has run since a transition_to_object on an enabled registry at
\* rest, and no record holds a one-shot step any more
TransitionResolved ==
    /\ assigned # <<>>
    /\ last.op = "animate"
    /\ ~is_locked(movement_list)

\* C16: once animate has run until is_locked() is false after a successful
\* transition_to_object on an enabled registry at rest, every instance the call
\* gave a cube has start equal to that cube's coordinate.
C16_AssignedReachTheirCube ==
    TransitionResolved
    => \A i \in Records :
          assigned[i] # NoneOpt => movement_list[i].start = assigned[i][1]

\* a transition resolved with an assigned instance away from its cube although
\* no movement vector involved was NaN
C16_Witness ==
    /\ TransitionResolved
    /\ \E i \in Records :
          /\ assigned[i] # NoneOpt
          /\ ~IsNaN3(movement_list[i].start)
          /\ movement_list[i].start # assigned[i][1]

\* C17: after a successful transition_to_object on an enabled registry of N
\* records to a shape of k <= N cubes, current_cubes holds k pairwise distinct
\* indices below N (cube c got instance current_cubes[c]), and every record has
\* received exactly one new step: the k assigned ones a step toward their cube,
\* the other N - k a release step.
C17_EveryRecordGetsOneStep ==
    [][\A object \in DOMAIN voxels_map :
          (TransitionSucceeded(object) /\ ~disabled)
          => LET cubes == voxels_map[object].cubes
                 k == Len(cubes)
                 N == Len(movement_list)
                 C == current_cubes'
                 newest(i) == StepsOf(movement_list', i)[Len(StepsOf(movement_list', i))]
                 toward(i) == \E c \in 1..k :
                                 /\ C[c] = i - 1
                                 /\ newest(i).speed = 40
                                 /\ newest(i).movement_vector
                                       = VSub(cubes[c], movement_list[i].grid_pos)
             IN  /\ k <= N
                 /\ Len(C) = k
                 /\ Cardinality(Range(C)) = k
                 /\ Range(C) \subseteq 0..(N - 1)
                 /\ \A i \in Records :
                       /\ Len(StepsOf(movement_list', i)) = Len(StepsOf(movement_list, i)) + 1
                       /\ newest(i).one_time_animation /\ newest(i).time = 0
                       /\ IF (i - 1) \in Range(C) THEN toward(i) ELSE newest(i).speed = 25
                 /\ Cardinality({i \in Records : toward(i)}) = k
                 /\ Cardinality({i \in Records : newest(i).speed = 25}) = N - k]_vars

\* a shape with fewer cubes than records was shown on an enabled registry whose
\* records already held a step: one record moves to the cube, the rest disperse
C17_Witness ==
    /\ last.op = "transition_to_object"
    /\ last.object = "Buttplug"
    /\ ~disabled
    /\ ~panicked
    /\ Len(current_cubes) = 1
    /\ \A i \in Records : Len(movement_list[i].animations) = 2

\* the steps of a list that the retain of a tick of dt drops: at time 1.0 as a
\* one-shot or at time 0.0 reversed, once the activated ones have advanced
AtTerminalBound(steps, dt) ==
    {k \in 1..Len(steps) :
        LET time == IF steps[k].activated THEN TimeAfter(steps[k], dt) ELSE steps[k].time
        IN  \/ steps[k].one_time_animation /\ time = TimeDen
            \/ steps[k].reversed /\ time = 0}

\* C18: a queued step leaves its record's list only inside animate, by being at
\* its terminal bound (1.0 one-shot, 0.0 reversed); no other operation of the
\* registry shortens a step list.
C18_StepsLeaveOnlyAtTerminalBound ==
    [][calls' = calls + 1 =>
          \A i \in Records :
             IF last'.op = "animate" /\ ~disabled /\ movement_list[i].activated
             THEN Len(StepsOf(movement_list', i))
                     = Len(StepsOf(movement_list, i))
                          - Cardinality(AtTerminalBound(StepsOf(movement_list, i), last'.n))
             ELSE Len(StepsOf(movement_list', i)) >= Len(StepsOf(movement_list, i))]_vars

\* a step in flight, strictly between 0.0 and 1.0, was dropped by
\* reset_instance_position_to_current_position
C18_Witness ==
    /\ last.op = "reset"
    /\ \E i \in Records :
          /\ \E k \in 1..Len(prev[i].animations) :
                prev[i].animations[k].time > 0 /\ prev[i].animations[k].time < TimeDen
          /\ movement_list[i].animations = <<>>

\* C19: the driving loop never calls transition_to_object while is_locked()
\* is true, from Gameloop::update or from Gameloop::process_event.
C19_NoTransitionWhileLocked ==
    \A c \in 1..Len(transitions) : ~transitions[c].locked

\* a key event called transition_to_object while a one-shot step was in a list
C19_Witness ==
    /\ last.op = "process_event"
    /\ last.object \in {"End", "PageUp", "PageDown"}
    /\ transitions # <<>>
    /\ transitions[1].locked
    /\ ~panicked

\* the call just made was a transition_to_object that queued its steps
ShowQueued ==
    /\ last.op = "transition_to_object"
    /\ last.object \in DOMAIN voxels_map
    /\ ~TooLarge(Len(voxels_map[last.object].cubes), Len(movement_list))
    /\ ~panicked
    /\ ~disabled

\* C20: after a successful transition_to_object on an enabled registry, animate
\* repeated with nothing but further transitions in between makes is_locked()
\* false after finitely many ticks, and a tick on an unlocked registry leaves it
\* unlocked.
C20_LockClearsInFinitelyManyTicks ==
    /\ [](ShowQueued => <>(~is_locked(movement_list)))
    /\ [][(last'.op = "animate" /\ ~is_locked(movement_list))
             => ~is_locked(movement_list')]_vars

\* the tick that cleared the lock: the last one-shot steps folded into start
C20_Witness ==
    /\ last.op = "animate"
    /\ is_locked(prev)
    /\ ~is_locked(movement_list)
    /\ \A i \in Records : movement_list[i].animations = <<>>
    /\ \E i \in Records : movement_list[i].start # prev[i].start

\* every step of the list is reversed, as reverse() leaves it
AllReversed(steps) ==
    \A k \in 1..Len(steps) : steps[k].reversed

\* the activated steps of a list
Activated(steps) ==
    {k \in 1..Len(steps) : steps[k].activated}

\* start plus the persistent contribution of a record after a tick that began
\* with the record at current_pos
StartPlusPersistent(animation, current_pos) ==
    VAdd(animation.start,
         PersistentContributions(animation.persistent_animation, Delay(current_pos), 1))

\* C21: in every tick after reverse() on an enabled registry, each activated
\* step of a reversed list with positive speed moves toward time 0.0 or is
\* removed, start stays as it was, and in the tick that removes the record's
\* last such step current_pos is start plus the persistent contribution only.
C21_ReversedStepsVanishWithoutResidue ==
    [][Ticked =>
          \A i \in Records :
             LET steps == StepsOf(movement_list, i)
                 after == StepsOf(movement_list', i)
             IN  (AllReversed(steps) /\ Activated(steps) # {}
                     /\ \A k \in Activated(steps) : steps[k].speed > 0)
                 => /\ \A k \in Activated(steps) :
                          \/ TimeAfter(steps[k], last'.n) = 0
                          \/ TimeAfter(steps[k], last'.n) < steps[k].time
                    /\ Len(after) = Cardinality({k \in 1..Len(steps) :
                                                    ~(k \in Activated(steps)
                                                      /\ TimeAfter(steps[k], last'.n) = 0)
                                                    /\ ~(steps[k].time = 0)})
                    /\ movement_list'[i].start = movement_list[i].start
                    /\ Activated(after) = {}
                          => movement_list'[i].current_pos
                                = StartPlusPersistent(movement_list'[i],
                                                      movement_list[i].current_pos)]_vars

\* reverse() was called on a shown shape and the ticks since have removed every
\* step of a record that transition_to_object had moved to the sphere: start
\* is where it was and current_pos is not start plus the persistent contribution
C21_Witness ==
    /\ last.op = "animate"
    /\ ~disabled
    /\ current_voxel \in DOMAIN voxels_map
    /\ \E i \in Records :
          /\ prev[i].animations # <<>>
          /\ AllReversed(prev[i].animations)
          /\ Activated(prev[i].animations) = 1..Len(prev[i].animations)
          /\ movement_list[i].animations = <<>>
          /\ movement_list[i].start = prev[i].start
          /\ movement_list[i].current_pos
                # StartPlusPersistent(movement_list[i], prev[i].current_pos)

\* the call just made is reset_instance_position_to_current_position
ResetCalled ==
    last'.op = "reset" /\ calls' = calls + 1

\* current_pos less the persistent contribution of a record, at its delay
WithoutPersistent(animation) ==
    VSub(animation.current_pos,
         PersistentContributions(animation.persistent_animation,
                                 Delay(animation.current_pos), 1))

\* C22: reset_instance_position_to_current_position empties the step list of
\* every record that has steps and a matching instance and sets the record's
\* start and the instance's position to current_pos less the persistent
\* contribution; a record without steps and its instance stay as they are; with
\* an instance for every record is_locked() is false afterwards.
C22_ResetAnchorsAtCurrentPos ==
    [][ResetCalled =>
          /\ \A i \in Records :
                IF StepsOf(movement_list, i) # <<>> /\ i <= Len(instances)
                THEN /\ StepsOf(movement_list', i) = <<>>
                     /\ movement_list'[i].start = WithoutPersistent(movement_list[i])
                     /\ instances'[i].position = WithoutPersistent(movement_list[i])
                ELSE /\ movement_list'[i] = movement_list[i]
                     /\ i <= Len(instances) => instances'[i] = instances[i]
          /\ Len(instances) >= Len(movement_list) => ~is_locked(movement_list')]_vars

\* a reset found a one-shot step in flight in one record and none in another:
\* the first record is re-anchored away from its old start and the registry is
\* unlocked, the second is as it was
C22_Witness ==
    /\ last.op = "reset"
    /\ is_locked(prev)
    /\ ~is_locked(movement_list)
    /\ \E i, j \in Records :
          /\ prev[i].animations # <<>>
          /\ movement_list[i].animations = <<>>
          /\ movement_list[i].start = WithoutPersistent(prev[i])
          /\ movement_list[i].start # prev[i].start
          /\ instances[i].position = movement_list[i].start
          /\ prev[j].animations = <<>>
          /\ movement_list[j] = prev[j]

\* the call just made is explode_object with a current_voxel to unwrap
ExplodeCalled ==
    last'.op = "explode_object" /\ calls' = calls + 1 /\ current_voxel # None

\* C23: explode_object on a shown shape leaves current_voxel as it was and
\* current_cubes with the same set of instance indices: no instance enters or
\* leaves the set in use.
C23_ExplodeKeepsCubeIdentity ==
    [][ExplodeCalled =>
          /\ ~panicked'
          /\ current_voxel' = current_voxel
          /\ Range(current_cubes') = Range(current_cubes)
          /\ Len(current_cubes') = Len(current_cubes)]_vars

\* explode_object on a shown shape that uses some instances and not others
\* queued a step that is not one-shot on every record
C23_Witness ==
    /\ last.op = "explode_object"
    /\ ~panicked
    /\ ~disabled
    /\ current_voxel \in DOMAIN voxels_map
    /\ Len(current_cubes) = Len(voxels_map[current_voxel].cubes)
    /\ Len(current_cubes) < Len(movement_list)
    /\ \A i \in Records :
          /\ Len(movement_list[i].animations) = Len(prev[i].animations) + 1
          /\ ~movement_list[i].animations[Len(movement_list[i].animations)].one_time_animation

\* no one-shot step of the list completes in a tick of dt
NoneCompletes(steps, dt) ==
    \A k \in 1..Len(steps) : ~Completes(steps, k, dt)

\* C24: the delay animate uses for a record depends only on the x and z of the
\* record's anchor, so of two consecutive ticks in neither of which a one-shot
\* step of the record completes, the second uses the delay of the first.
C24_DelayFollowsAnchorOnly ==
    [][(Ticked /\ last.op = "animate") =>
          \A i \in Records :
             (/\ movement_list[i].activated
              /\ NoneCompletes(prev[i].animations, last.n)
              /\ NoneCompletes(movement_list[i].animations, last'.n))
             => Delay(movement_list[i].current_pos) = Delay(prev[i].current_pos)]_vars

\* a tick in which no one-shot step completed moved a record along x by a step
\* that is still in its list; start is where it was, and the delay of the
\* record's current_pos is no longer the delay that tick used
C24_Witness ==
    /\ last.op = "animate"
    /\ ~disabled
    /\ ~panicked
    /\ calls < MaxCalls
    /\ \E i \in Records :
          /\ NoneCompletes(prev[i].animations, last.n)
          /\ movement_list[i].animations # <<>>
          /\ NoneCompletes(movement_list[i].animations, (5 * TimeDen) \div 4)
          /\ movement_list[i].start = prev[i].start
          /\ ~IsNaN3(movement_list[i].current_pos)
          /\ ~IsNaN3(prev[i].current_pos)
          /\ Delay(movement_list[i].current_pos) # Delay(prev[i].current_pos)

\* the data of a worker is what update_instance wrote from the records of one
\* tick, or where the reset of that tick's scroll transition put the instance
OfOneTick(worker) ==
    /\ Len(worker.data) = Len(worker.records)
    /\ \A i \in 1..Len(worker.data) :
          /\ worker.data[i].color = worker.records[i].color
          /\ worker.data[i].position \in {worker.records[i].current_pos,
                                          ResetPosition(worker.records[i])}

\* C25: the data of every worker of update_buffer_multithreaded is taken from
\* one snapshot of the instance list, cloned after that tick's update_instance
\* writes; whatever runs between the dispatch and the write, the data stays as
\* cloned and the write uploads exactly that data, never values of two ticks.
C25_UploadIsOneSnapshot ==
    [][\A w \in 1..Len(uploads') :
          /\ OfOneTick(uploads'[w])
          /\ w <= Len(uploads) =>
                /\ uploads'[w].data = uploads[w].data
                /\ uploads'[w].records = uploads[w].records
                /\ (uploads[w].pc = "spawned" /\ uploads'[w].pc = "written")
                      => instance_buffer' = uploads[w].data]_vars

\* a worker wrote its snapshot after a later frame had moved the instances and
\* dispatched its own worker: the buffer holds the earlier snapshot whole
C25_Witness ==
    \E w \in 1..Len(uploads) :
       /\ w < Len(uploads)
       /\ uploads[w].pc = "written"
       /\ uploads[w + 1].pc = "spawned"
       /\ instance_buffer = uploads[w].data
       /\ uploads[w].data # uploads[w + 1].data
       /\ uploads[w].data # to_raw(instances)

\* every worker spawned has finished
AllWorkersDone ==
    \A w \in 1..Len(uploads) : uploads[w].pc = "done"

\* C26: once all workers have finished, the instance buffer and the instance
\* count are those of the snapshot of the frame dispatched last, in whatever
\* order the workers completed.
C26_LastDispatchedFrameWins ==
    (uploads # <<>> /\ AllWorkersDone)
    => /\ instance_buffer = uploads[Len(uploads)].data
       /\ atomic_usize = Len(uploads[Len(uploads)].data)

\* two frames were dispatched and both workers have finished, the worker of the
\* earlier frame writing last: the buffer holds the earlier snapshot
C26_Witness ==
    /\ Len(uploads) >= 2
    /\ AllWorkersDone
    /\ ~panicked
    /\ instance_buffer = uploads[Len(uploads) - 1].data
    /\ instance_buffer # uploads[Len(uploads)].data

\* C27: explode_object called while current_voxel is None returns without
\* panicking and leaves the VoxelHandler and every record as they were.
C27_ExplodeBeforeTransitionIsNoOp ==
    [][(last'.op = "explode_object" /\ calls' = calls + 1 /\ current_voxel = None)
          => /\ ~panicked'
             /\ current_voxel' = current_voxel
             /\ current_cubes' = current_cubes
             /\ movement_list' = movement_list]_vars

\* explode_object was called before any transition_to_object and the unwrap of
\* current_voxel aborted the program
C27_Witness ==
    /\ last.op = "explode_object"
    /\ last.object = None
    /\ current_voxel = None
    /\ current_cubes = <<>>
    /\ panicked

\* C28: transition_to_object made while the registry is disabled, when
\* set_animation and set_animation_state queue nothing, leaves current_cubes
\* and current_voxel as they were.
C28_DisabledTransitionKeepsHandler ==
    [][(last'.op = "transition_to_object" /\ calls' = calls + 1 /\ disabled)
          => /\ current_cubes' = current_cubes
             /\ current_voxel' = current_voxel]_vars

\* disable() and then the first transition_to_object, of a shape that fits: no
\* record got a step, and current_voxel and current_cubes were replaced
C28_Witness ==
    /\ calls = 2
    /\ disabled
    /\ last.op = "transition_to_object"
    /\ last.object \in DOMAIN voxels_map
    /\ ~panicked
    /\ movement_list = prev
    /\ AtRest(movement_list)
    /\ current_voxel = last.object
    /\ Len(current_cubes) = Len(voxels_map[last.object].cubes)
    /\ current_cubes # <<>>

\* a step animate never removes: not one-shot and not reversed
IsPermanent(step) ==
    ~step.one_time_animation /\ ~step.reversed

\* the movement vectors of the steps of a list, summed
RECURSIVE MovementSum(_, _)
MovementSum(steps, k) ==
    IF k > Len(steps) THEN Zero3
    ELSE VAdd(steps[k].movement_vector, MovementSum(steps, k + 1))

\* the call just made is an explode_object that queued its steps
ExplodeQueued ==
    /\ ExplodeCalled
    /\ ~disabled
    /\ ~panicked'
    /\ current_voxel \in DOMAIN voxels_map
    /\ ~TooLarge(Len(voxels_map[current_voxel].cubes), Len(movement_list))

\* C29: animate never removes a step that is not one-shot and not reversed; a
\* record whose steps are all of this kind, activated and at time 1.0 has
\* current_pos at start plus the persistent contribution plus their full
\* movement vectors in every tick; and every explode_object call that queues
\* its steps adds one such step to every record.
C29_ForwardStepsArePermanent ==
    [][/\ Ticked =>
             \A i \in Records :
                LET steps == StepsOf(movement_list, i)
                    after == StepsOf(movement_list', i)
                    kept == SelectSeq(steps, IsPermanent)
                IN  /\ SelectSeq(after, IsPermanent)
                          = [k \in 1..Len(kept) |->
                               IF kept[k].activated
                               THEN [kept[k] EXCEPT
                                       !.time = TimeAfter(kept[k], last'.n),
                                       !.animating =
                                           IF TimeAfter(kept[k], last'.n) = TimeDen
                                           THEN FALSE ELSE @]
                               ELSE kept[k]]
                    /\ (/\ steps # <<>>
                        /\ \A k \in 1..Len(steps) :
                              /\ IsPermanent(steps[k])
                              /\ steps[k].activated
                              /\ steps[k].time = TimeDen)
                       => /\ Len(after) = Len(steps)
                          /\ movement_list'[i].current_pos
                                = VAdd(StartPlusPersistent(movement_list'[i],
                                                           movement_list[i].current_pos),
                                       MovementSum(steps, 1))
       /\ ExplodeQueued =>
             \A i \in Records :
                LET steps == StepsOf(movement_list, i)
                    after == StepsOf(movement_list', i)
                IN  /\ Len(after) = Len(steps) + 1
                    /\ SubSeq(after, 1, Len(steps))
                          = [k \in 1..Len(steps) |->
                               [steps[k] EXCEPT !.activated = TRUE, !.animating = TRUE]]
                    /\ IsPermanent(after[Len(after)])
                    /\ after[Len(after)].activated]_vars

\* a tick on a record whose only step is the step explode_object queued, at
\* time 1.0 since an earlier tick: the step is still there and current_pos is
\* away from start by its whole movement vector
C29_Witness ==
    /\ last.op = "animate"
    /\ ~disabled
    /\ current_voxel \in DOMAIN voxels_map
    /\ \E i \in Records :
          /\ Len(prev[i].animations) = 1
          /\ IsPermanent(prev[i].animations[1])
          /\ prev[i].animations[1].activated
          /\ prev[i].animations[1].time = TimeDen
          /\ prev[i].animations[1].movement_vector # Zero3
          /\ ~IsNaN3(prev[i].animations[1].movement_vector)
          /\ movement_list[i].animations = prev[i].animations
          /\ movement_list[i].current_pos
                = VAdd(StartPlusPersistent(movement_list[i], prev[i].current_pos),
                       prev[i].animations[1].movement_vector)

\* the key before n in the map, 0 for the first key
KeyBefore(map, n) ==
    IF \E m \in DOMAIN map : m < n
    THEN CHOOSE m \in DOMAIN map : m < n /\ \A l \in DOMAIN map : l < n => l <= m
    ELSE 0

\* the value of the bucket [previous key, key) that holds the position
BucketValue(map, position) ==
    LET holding == {n \in DOMAIN map : KeyBefore(map, n) <= position /\ position < n}
    IN  IF holding = {} THEN NoneOpt ELSE Some(map[CHOOSE n \in holding : TRUE])

\* C30: get_transition_once(position) returns Some(v) exactly when the bucket
\* [previous key, key) holding the position maps to v and v is not the value
\* the previous call found; a second call into a bucket of the same value
\* returns None; a position outside every bucket returns None and clears
\* last_transition.
C30_TransitionOnce ==
    eval.f = "get_transition_once" =>
       /\ eval.found = BucketValue(transition_handler.transition_map, eval.position)
       /\ eval.returned # NoneOpt
             <=> (eval.found # NoneOpt /\ eval.found # eval.previous)
       /\ eval.returned # NoneOpt => eval.returned = eval.found
       /\ (eval.found # NoneOpt /\ eval.found = eval.previous) => eval.returned = NoneOpt
       /\ eval.found = NoneOpt =>
             (eval.returned = NoneOpt /\ transition_handler.last_transition = NoneOpt)
       /\ transition_handler.last_transition = eval.found

\* a bucket is entered again after a call outside every bucket: the value the
\* handler had returned before is returned once more
C30_Witness ==
    /\ eval.f = "get_transition_once"
    /\ eval.returned # NoneOpt
    /\ eval.previous = NoneOpt
    /\ eval.returned[1] \in eval.seen
    /\ transition_handler.last_transition = eval.returned
====
